---- MODULE Spec2Model ----
(***************************************************************************)
(* The cave key-value store (kv.go) and its HTTP surface (api.go).         *)
(*                                                                         *)
(* Strings are sequences of one-character strings, so that parsePath works *)
(* on the text of a path.  The bbolt database is the tree of the "kv"      *)
(* bucket: a function from entry paths (sequences of names) to entries,    *)
(* every entry a nested bucket or a leaf holding the serialised envelope.  *)
(* KVObject.LastUpdated and the Lock's node and time fields are left out:  *)
(* no operation of the store reads them.                                   *)
(***************************************************************************)
EXTENDS Integers, Sequences, FiniteSets, TLC

\* Lock ids handed out by uuid.New() in one run (ids are never reused).
MaxLocks == 2
\* Entries in one multi-query batch.
MaxBatch == 3
\* Store calls made on one node in one run of the two-node system.
MaxRequests == 3
\* Characters in a path given to parsePath.
MaxPath == 4

VARIABLES
    db,         \* kv.db: the tree below the top-level bucket "kv"
    nextLockId, \* the next unused lock id (uuid.New() is always fresh)
    crashed,    \* the process has died of a run-time panic
    lastOp,     \* the operation that ran last: what was called and what came back
    mq,         \* the multi-query request in progress: handler, goroutines, channel
    cl          \* concurrent Store calls on this node, the transport to a peer, the peer

(***************************************************************************)
(* Text                                                                    *)
(***************************************************************************)
Slash == "/"

\* strings.LastIndex(s, c), 0-based; -1 when c is not in s.
LastIndex(s, c) ==
    IF \E i \in 1..Len(s) : s[i] = c
    THEN (CHOOSE i \in 1..Len(s) : s[i] = c /\ \A j \in (i+1)..Len(s) : s[j] # c) - 1
    ELSE -1

\* strings.Index(s, c), 0-based; -1 when c is not in s.
Index(s, c) ==
    IF \E i \in 1..Len(s) : s[i] = c
    THEN (CHOOSE i \in 1..Len(s) : s[i] = c /\ \A j \in 1..(i-1) : s[j] # c) - 1
    ELSE -1

\* strings.Split(s, sep) for a one-character separator.
RECURSIVE Split(_, _)
Split(s, sep) ==
    LET i == Index(s, sep)
    IN  IF i = -1 THEN <<s>>
        ELSE <<SubSeq(s, 1, i)>> \o Split(SubSeq(s, i + 2, Len(s)), sep)

\* strings.HasSuffix(s, "/").
HasSuffixSlash(s) == Len(s) > 0 /\ s[Len(s)] = Slash

\* strings.Join(elems, sep).
RECURSIVE Join(_, _)
Join(elems, sep) ==
    IF elems = <<>> THEN <<>>
    ELSE IF Len(elems) = 1 THEN elems[1]
    ELSE elems[1] \o <<sep>> \o Join(Tail(elems), sep)

\* parsePath cutting the key at the first '/' instead of the last.
parsePath_FirstSlash(path) ==
    LET last == SubSeq(path, Index(path, Slash) + 2, Len(path))
    IN  IF last = path
        THEN [buckets |-> <<>>, key |-> last]
        ELSE LET paths == Split(path, Slash)
             IN  [buckets |-> SubSeq(paths, 1, Len(paths) - 1), key |-> last]

\* parsePath: the key is the text after the last '/', the buckets the segments before it.
parsePath(path) ==
    LET last == SubSeq(path, LastIndex(path, Slash) + 2, Len(path))
    IN  IF last = path
        THEN [buckets |-> <<>>, key |-> last]
        ELSE LET paths == Split(path, Slash)
             IN  [buckets |-> SubSeq(paths, 1, Len(paths) - 1), key |-> last]

(***************************************************************************)
(* Envelopes and their serialised form                                     *)
(***************************************************************************)
\* The zero KVObject, what json.Unmarshal leaves when it fails.
ZeroObject == [data |-> <<>>, secret |-> FALSE, locks |-> <<>>, plaintext |-> FALSE]

\* json.Marshal(KVObject): a non-empty text that holds the object.
Marshal(obj) == <<obj>>

\* json.Unmarshal(bytes, &obj): empty input is a syntax error and leaves the zero object.
Unmarshal(bytes) ==
    IF bytes = <<>>
    THEN [obj |-> ZeroObject, err |-> "unexpected end of JSON input"]
    ELSE [obj |-> bytes[1], err |-> "nil"]

\* Whether json.Unmarshal(value, &json.RawMessage) succeeds: the values of the model
\* are digit strings (JSON numbers) and texts holding a letter (not JSON).
IsJSON(value) == value # <<>> /\ \A i \in 1..Len(value) : value[i] = "1"

\* json.Marshal(Lock) and json.Unmarshal(data, &Lock): '{' key ':' lock_id '}'.
MarshalLock(l) == <<"{">> \o l.key \o <<":", l.lock_id, "}">>

UnmarshalLock(data) ==
    IF Len(data) >= 4 /\ data[1] = "{" /\ data[Len(data)] = "}" /\ data[Len(data) - 2] = ":"
    THEN [lock |-> [key |-> SubSeq(data, 2, Len(data) - 3), lock_id |-> data[Len(data) - 1]],
          err |-> "nil"]
    ELSE [lock |-> [key |-> <<>>, lock_id |-> ""], err |-> "invalid character"]

(***************************************************************************)
(* The bbolt bucket tree                                                   *)
(***************************************************************************)
BucketEntry == [kind |-> "bucket", bytes |-> <<>>]
LeafEntry(bytes) == [kind |-> "leaf", bytes |-> bytes]

EmptyDB == [p \in {} |-> BucketEntry]

\* The bucket at path bp exists (the root, <<>>, always does: newKV creates "kv").
IsBucket(d, bp) == bp = <<>> \/ (bp \in DOMAIN d /\ d[bp].kind = "bucket")

IsPrefix(p, q) == Len(p) <= Len(q) /\ SubSeq(q, 1, Len(p)) = p

\* The names of the entries directly inside bucket bp.
Children(d, bp) == {p \in DOMAIN d : Len(p) = Len(bp) + 1 /\ IsPrefix(bp, p)}

SetEntry(d, p, e) == [q \in (DOMAIN d) \cup {p} |-> IF q = p THEN e ELSE d[q]]
RemoveEntries(d, gone) == [q \in (DOMAIN d) \ gone |-> d[q]]

\* Bucket.CreateBucketIfNotExists(name) inside bucket bp.
CreateBucketIfNotExists(d, bp, name) ==
    LET p == Append(bp, name)
    IN  IF name = <<>> THEN [db |-> d, bkt |-> bp, err |-> "bucket name required"]
        ELSE IF p \in DOMAIN d
             THEN IF d[p].kind = "bucket" THEN [db |-> d, bkt |-> p, err |-> "nil"]
                  ELSE [db |-> d, bkt |-> bp, err |-> "incompatible value"]
        ELSE [db |-> SetEntry(d, p, BucketEntry), bkt |-> p, err |-> "nil"]

\* getBuckets: walk (create=FALSE) or walk and create (create=TRUE) the bucket chain.
RECURSIVE getBucketsFrom(_, _, _, _)
getBucketsFrom(d, bp, buckets, create) ==
    IF buckets = <<>> THEN [db |-> d, bkt |-> bp, err |-> "nil"]
    ELSE IF create
         THEN LET c == CreateBucketIfNotExists(d, bp, Head(buckets))
              IN  IF c.err # "nil" THEN c
                  ELSE getBucketsFrom(c.db, c.bkt, Tail(buckets), create)
         ELSE IF IsBucket(d, Append(bp, Head(buckets))) /\ Head(buckets) # <<>>
              THEN getBucketsFrom(d, Append(bp, Head(buckets)), Tail(buckets), create)
              ELSE [db |-> d, bkt |-> bp, err |-> "Bucket does not exist"]

getBuckets(d, buckets, create) == getBucketsFrom(d, <<>>, buckets, create)

\* Bucket.Put(key, value).
BucketPut(d, bp, k, bytes) ==
    LET p == Append(bp, k)
    IN  IF k = <<>> THEN [db |-> d, err |-> "key required"]
        ELSE IF p \in DOMAIN d /\ d[p].kind = "bucket"
             THEN [db |-> d, err |-> "incompatible value"]
        ELSE [db |-> SetEntry(d, p, LeafEntry(bytes)), err |-> "nil"]

\* Bucket.Get(key): nil (empty) when the key is absent or names a nested bucket.
BucketGet(d, bp, k) ==
    LET p == Append(bp, k)
    IN  IF p \in DOMAIN d /\ d[p].kind = "leaf" THEN d[p].bytes ELSE <<>>

\* Bucket.Delete reporting an absent key as an error.
BucketDelete_AbsentIsError(d, bp, k) ==
    LET p == Append(bp, k)
    IN  IF p \notin DOMAIN d THEN [db |-> d, err |-> "key not found"]
        ELSE IF d[p].kind = "bucket" THEN [db |-> d, err |-> "incompatible value"]
        ELSE [db |-> RemoveEntries(d, {p}), err |-> "nil"]

\* Bucket.Delete(key): an absent key is no error; a nested bucket is.
BucketDelete(d, bp, k) ==
    LET p == Append(bp, k)
    IN  IF p \notin DOMAIN d THEN [db |-> d, err |-> "nil"]
        ELSE IF d[p].kind = "bucket" THEN [db |-> d, err |-> "incompatible value"]
        ELSE [db |-> RemoveEntries(d, {p}), err |-> "nil"]

\* Bucket.DeleteBucket(key): the cursor seeks key and must land on a bucket of that
\* name.  No entry is ever named "": seeking "" lands on the first entry of a
\* non-empty bucket (another name: bucket not found) or on nothing in an empty one
\* (nil equals "", and it is no bucket: incompatible value).
BucketDeleteBucket(d, bp, k) ==
    LET p == Append(bp, k)
    IN  IF k = <<>>
        THEN IF Children(d, bp) = {} THEN [db |-> d, err |-> "incompatible value"]
             ELSE [db |-> d, err |-> "bucket not found"]
        ELSE IF p \notin DOMAIN d THEN [db |-> d, err |-> "bucket not found"]
        ELSE IF d[p].kind # "bucket" THEN [db |-> d, err |-> "incompatible value"]
        ELSE [db |-> RemoveEntries(d, {q \in DOMAIN d : IsPrefix(p, q)}), err |-> "nil"]

\* db.Update(fn): the transaction commits when fn returns nil and rolls back otherwise.
Update(d, tx) == IF tx.err = "nil" THEN [db |-> tx.db, err |-> "nil"]
                 ELSE [db |-> d, err |-> tx.err]

(***************************************************************************)
(* The Store (kv.go).  Every operation returns the database it leaves, the *)
(* error it returns and the updates it handed to Cluster.Emit;             *)
(* transportFails is whether Cluster.Emit returns an error.                *)
(***************************************************************************)
KVUpdate(t, key, value) == [update_type |-> t, key |-> key, value |-> value]

\* emitEvent returning before it reaches Cluster.Emit.
emitEvent_NotSent(t, key, value, transportFails) == [err |-> "nil", sent |-> <<>>]

\* emitEvent: one call of Cluster.Emit; its error is returned.
emitEvent(t, key, value, transportFails) ==
    [err |-> IF transportFails THEN "emit failed" ELSE "nil",
     sent |-> <<KVUpdate(t, key, value)>>]

\* PutObject: write the envelope in one transaction, then emit put:key.
PutObject(d, key, value, emit, transportFails) ==
    LET pp == parsePath(key)
        b  == getBuckets(d, pp.buckets, TRUE)
        tx == Update(d, IF b.err # "nil" THEN [db |-> d, err |-> b.err]
                        ELSE BucketPut(b.db, b.bkt, pp.key, Marshal(value)))
    IN  IF tx.err # "nil" THEN [db |-> tx.db, err |-> tx.err, sent |-> <<>>]
        ELSE IF emit
             THEN LET ev == emitEvent("put:key", key, value, transportFails)
                  IN  [db |-> tx.db, err |-> ev.err, sent |-> ev.sent]
        ELSE [db |-> tx.db, err |-> "nil", sent |-> <<>>]

\* Put keeping the bytes only when they are JSON.
Put_JSONOnly(d, key, value, secret, emit, transportFails) ==
    PutObject(d, key,
              [data |-> IF IsJSON(value) THEN value ELSE <<>>, secret |-> secret,
               locks |-> <<>>, plaintext |-> ~IsJSON(value)],
              emit, transportFails)

\* The envelope Put builds: the bytes, the secret flag, no locks.
NewObject(value, secret) ==
    [data |-> value, secret |-> secret, locks |-> <<>>, plaintext |-> ~IsJSON(value)]

\* Put: wrap the bytes in a fresh envelope and PutObject it.
Put(d, key, value, secret, emit, transportFails) ==
    PutObject(d, key, NewObject(value, secret), emit, transportFails)

\* GetObject: the error of the read transaction is overwritten by json.Unmarshal's.
GetObject(d, key) ==
    LET pp   == parsePath(key)
        b    == getBuckets(d, pp.buckets, FALSE)
        bobj == IF b.err # "nil" THEN <<>> ELSE BucketGet(d, b.bkt, pp.key)
    IN  Unmarshal(bobj)

\* Get: the envelope's data.
Get(d, key) ==
    LET o == GetObject(d, key)
    IN  IF o.err # "nil" THEN [data |-> <<>>, err |-> o.err]
        ELSE [data |-> o.obj.data, err |-> "nil"]

\* GetKeys: the names in a bucket, a nested bucket's name followed by '/'.
GetKeys(d, key) ==
    LET pp == parsePath(key)
        b  == getBuckets(d, pp.buckets, FALSE)
        bp == IF pp.key = <<>> THEN b.bkt ELSE Append(b.bkt, pp.key)
    IN  IF b.err # "nil" THEN [keys |-> {}, err |-> b.err]
        ELSE [keys |-> {IF d[p].kind = "bucket" THEN Append(p[Len(p)], Slash) ELSE p[Len(p)] :
                        p \in Children(d, bp)},
              err |-> "nil"]

\* DeleteKey: the transaction's error is overwritten by emitEvent's when emit is set.
DeleteKey(d, key, emit, transportFails) ==
    LET pp == parsePath(key)
        b  == getBuckets(d, pp.buckets, FALSE)
        tx == Update(d, IF b.err # "nil" THEN [db |-> d, err |-> b.err]
                        ELSE BucketDelete(d, b.bkt, pp.key))
    IN  IF emit
        THEN LET ev == emitEvent("delete:key", key, ZeroObject, transportFails)
             IN  [db |-> tx.db, err |-> ev.err, sent |-> ev.sent]
        ELSE [db |-> tx.db, err |-> tx.err, sent |-> <<>>]

\* DeleteBucket: as DeleteKey, with Bucket.DeleteBucket on the terminal segment.
DeleteBucket(d, key, emit, transportFails) ==
    LET pp == parsePath(key)
        b  == getBuckets(d, pp.buckets, FALSE)
        tx == Update(d, IF b.err # "nil" THEN [db |-> d, err |-> b.err]
                        ELSE BucketDeleteBucket(d, b.bkt, pp.key))
    IN  IF emit
        THEN LET ev == emitEvent("delete:bucket", key, ZeroObject, transportFails)
             IN  [db |-> tx.db, err |-> ev.err, sent |-> ev.sent]
        ELSE [db |-> tx.db, err |-> tx.err, sent |-> <<>>]

NewLock(key, id) == [key |-> key, lock_id |-> id]

\* Lock: read the envelope, append a new Lock, write it back.  The caller's emit
\* argument (e) is not read: PutObject is always called with emit = true.
Lock(d, key, e, id, transportFails) ==
    LET l == NewLock(key, id)
        o == GetObject(d, key)
    IN  IF o.err # "nil" THEN [db |-> d, err |-> o.err, sent |-> <<>>, lock |-> l]
        ELSE LET p == PutObject(d, key, [o.obj EXCEPT !.locks = Append(@, l)],
                                TRUE, transportFails)
             IN  [db |-> p.db, err |-> p.err, sent |-> p.sent, lock |-> l]

\* The index Unlock's loop finds, 0-based: the first lock with the lock_id, or -1.
LockIndex(locks, lock) ==
    IF \E i \in 1..Len(locks) : locks[i].lock_id = lock.lock_id
    THEN (CHOOSE i \in 1..Len(locks) :
            /\ locks[i].lock_id = lock.lock_id
            /\ \A j \in 1..(i-1) : locks[j].lock_id # lock.lock_id) - 1
    ELSE -1

\* Unlock cutting the list at the lock: locks[:index] without locks[index+1:].
Unlock_Truncates(d, lock, e, transportFails) ==
    LET o     == GetObject(d, lock.key)
        index == LockIndex(o.obj.locks, lock)
    IN  IF o.err # "nil" THEN [db |-> d, err |-> o.err, sent |-> <<>>]
        ELSE IF index = -1 THEN [db |-> d, err |-> "panic", sent |-> <<>>]
        ELSE LET p == PutObject(d, lock.key,
                                [o.obj EXCEPT !.locks = SubSeq(o.obj.locks, 1, index)],
                                TRUE, transportFails)
             IN  [db |-> p.db, err |-> p.err, sent |-> p.sent]

\* Unlock: read the envelope, splice the lock out, write it back (emit = true,
\* whatever e is).  With index = -1 the slice expression locks[:index] panics.
Unlock(d, lock, e, transportFails) ==
    LET o     == GetObject(d, lock.key)
        index == LockIndex(o.obj.locks, lock)
    IN  IF o.err # "nil" THEN [db |-> d, err |-> o.err, sent |-> <<>>]
        ELSE IF index = -1 THEN [db |-> d, err |-> "panic", sent |-> <<>>]
        ELSE LET locks == SubSeq(o.obj.locks, 1, index)
                            \o SubSeq(o.obj.locks, index + 2, Len(o.obj.locks))
                 p == PutObject(d, lock.key, [o.obj EXCEPT !.locks = locks],
                                TRUE, transportFails)
             IN  [db |-> p.db, err |-> p.err, sent |-> p.sent]

(***************************************************************************)
(* The Update loop's dispatch (kv.go) and the HTTP handlers (api.go)       *)
(***************************************************************************)
\* One call of a Store function on database d, as lastOp records it: what was
\* called, the error returned, the updates handed to the transport and whether the
\* call changed the database.
Call(fn, key, emit, d, r) ==
    [fn |-> fn, key |-> key, emit |-> emit, err |-> r.err, sent |-> r.sent,
     changed |-> r.db # d]

\* A message on kv.updates: its Data decodes to a KVUpdate, or does not.
Message(kvu) == [decodes |-> TRUE, kvu |-> kvu]
Undecodable == [decodes |-> FALSE, kvu |-> KVUpdate("", <<>>, ZeroObject)]

\* handleUpdate dropping every message.
handleUpdate_Ignores(d, msg, id, transportFails) ==
    [db |-> d, err |-> "nil", sent |-> <<>>, calls |-> <<>>]

\* handleUpdate: decode the message and apply it with emit = false.
handleUpdate(d, msg, id, transportFails) ==
    LET kvu == msg.kvu
        t   == kvu.update_type
        applied(fn, r) == [db |-> r.db, err |-> r.err, sent |-> r.sent,
                           calls |-> <<Call(fn, kvu.key, FALSE, d, r)>>]
        ignored(err) == [db |-> d, err |-> err, sent |-> <<>>, calls |-> <<>>]
    IN  IF ~msg.decodes THEN ignored("invalid character")
        ELSE IF t = "put:key"
             THEN applied("PutObject", PutObject(d, kvu.key, kvu.value, FALSE, transportFails))
        ELSE IF t = "delete:key"
             THEN applied("DeleteKey", DeleteKey(d, kvu.key, FALSE, transportFails))
        ELSE IF t = "delete:bucket"
             THEN applied("DeleteBucket", DeleteBucket(d, kvu.key, FALSE, transportFails))
        ELSE IF t = "lock:create"
             THEN applied("Lock", Lock(d, kvu.key, FALSE, id, transportFails))
        ELSE IF t = "lock:delete"
             THEN LET l == UnmarshalLock(kvu.value.data)
                  IN  IF l.err # "nil" THEN ignored(l.err)
                      ELSE applied("Unlock", Unlock(d, l.lock, FALSE, transportFails))
        ELSE ignored("nil")

NoLock == [key |-> <<>>, lock_id |-> ""]

Op(op, path, value, calls, status, body) ==
    [op |-> op, path |-> path, value |-> value, calls |-> calls,
     status |-> status, body |-> body, lock |-> NoLock, update_type |-> "", err |-> "nil"]

\* kvGetHandler without ?tree and ?secret: a listing for "" and for paths ending
\* in '/', else the stored data; 500 on an error of the Store, 404 on nothing.
kvGetHandler(d, path) ==
    LET read(fn, r) == [fn |-> fn, key |-> path, emit |-> FALSE, err |-> r.err,
                        sent |-> <<>>, changed |-> FALSE]
    IN  IF HasSuffixSlash(path) \/ path = <<>>
        THEN LET k == GetKeys(d, path)
             IN  [calls |-> <<read("GetKeys", k)>>, body |-> <<>>,
                  status |-> IF k.err # "nil" THEN 500 ELSE IF k.keys = {} THEN 404 ELSE 200]
        ELSE LET b == Get(d, path)
             IN  [calls |-> <<read("Get", b)>>,
                  body |-> IF b.err = "nil" THEN b.data ELSE <<>>,
                  status |-> IF b.err # "nil" THEN 500
                             ELSE IF Len(b.data) = 0 THEN 404 ELSE 200]

\* kvPutHandler without ?secret: Put(path, body, "kv", false); 500 on its error.
kvPutHandler(d, path, buf, transportFails) ==
    LET r == Put(d, path, buf, FALSE, TRUE, transportFails)
    IN  [db |-> r.db, calls |-> <<Call("Put", path, TRUE, d, r)>>,
         status |-> IF r.err # "nil" THEN 500 ELSE 200]

\* kvDeleteHandler: DeleteBucket for a path ending in '/', with 404 when its error is
\* bbolt.ErrBucketNotFound and 500 on another; then, in every case that has not
\* returned, DeleteKey on the same path.
kvDeleteHandler(d, path, transportFails1, transportFails2) ==
    LET rb == DeleteBucket(d, path, TRUE, transportFails1)
        d1 == IF HasSuffixSlash(path) THEN rb.db ELSE d
        c1 == IF HasSuffixSlash(path) THEN <<Call("DeleteBucket", path, TRUE, d, rb)>> ELSE <<>>
        rk == DeleteKey(d1, path, TRUE, transportFails2)
    IN  IF HasSuffixSlash(path) /\ rb.err # "nil"
        THEN [db |-> rb.db, calls |-> c1,
              status |-> IF rb.err = "bucket not found" THEN 404 ELSE 500]
        ELSE [db |-> rk.db, calls |-> Append(c1, Call("DeleteKey", path, TRUE, d1, rk)),
              status |-> IF rk.err # "nil" THEN 500 ELSE 200]

\* A QueryObject of a multi-query: verb, key, value, secret, error.
QueryObject(verb, key, value, secret) ==
    [verb |-> verb, key |-> key, value |-> value, secret |-> secret, error |-> ""]

\* The crypto box under the shared key, by its contract: the ciphertext differs
\* from the plaintext, decrypting a ciphertext gives the plaintext back, and
\* decrypting other bytes is an error.
Sealed == "#"
encrytJSON(value) == [data |-> <<Sealed>> \o value, err |-> "nil"]
decryptJSON(bytes) ==
    IF bytes # <<>> /\ bytes[1] = Sealed THEN [data |-> Tail(bytes), err |-> "nil"]
    ELSE [data |-> <<>>, err |-> "cipher: message authentication failed"]

\* strings.ToUpper on the verbs of a batch.
ToUpper(s) == CASE s = "get" -> "GET" [] s = "put" -> "PUT" [] s = "delete" -> "DELETE"
                [] OTHER -> s

\* doGET up to its send: the entry with the error of Get, or with "does not exist"
\* when the data is empty, or with a value.  The value is assigned as the code
\* assigns it: for a secret entry the stored bytes when decryptJSON fails, then
\* (in both cases) what decryptJSON returned; then, for every entry, the stored
\* bytes.
doGET(d, q) ==
    LET b == Get(d, q.key)
        decrypted(dec) == [(IF dec.err # "nil" THEN [q EXCEPT !.value = b.data] ELSE q)
                              EXCEPT !.value = dec.data]
    IN  [db |-> d, sent |-> <<>>,
         q |-> IF b.err # "nil" THEN [q EXCEPT !.error = b.err]
               ELSE IF Len(b.data) = 0 THEN [q EXCEPT !.error = "Key does not exist"]
               ELSE [(IF q.secret THEN decrypted(decryptJSON(b.data)) ELSE q)
                        EXCEPT !.value = b.data]]

\* doPOST up to its send: Put(q.Key, buf, "kv", q.Secret) with buf the value, or
\* its ciphertext for a secret entry; an error of either in the entry.
doPOST(d, q, transportFails) ==
    LET enc == encrytJSON(q.value)
        buf == IF q.secret THEN enc.data ELSE q.value
        r == IF q.secret /\ enc.err # "nil" THEN [db |-> d, sent |-> <<>>, err |-> enc.err]
             ELSE Put(d, q.key, buf, q.secret, TRUE, transportFails)
    IN  [db |-> r.db, sent |-> r.sent,
         q |-> IF r.err # "nil" THEN [q EXCEPT !.error = r.err] ELSE q]

\* doDELETE up to its send: DeleteKey(q.Key, "kv"), its error in the entry.
doDELETE(d, q, transportFails) ==
    LET r == DeleteKey(d, q.key, TRUE, transportFails)
    IN  [db |-> r.db, sent |-> r.sent,
         q |-> IF r.err # "nil" THEN [q EXCEPT !.error = r.err] ELSE q]

\* The verbs multiQueryHandler starts a goroutine for; any other verb is answered
\* by the handler itself.
Spawns(q) == ToUpper(q.verb) \in {"GET", "PUT", "POST", "DELETE"}

\* The body of the goroutine multiQueryHandler starts for q, up to its send.
Goroutine(d, q, transportFails) ==
    IF ToUpper(q.verb) = "GET" THEN doGET(d, q)
    ELSE IF ToUpper(q.verb) \in {"PUT", "POST"} THEN doPOST(d, q, transportFails)
    ELSE doDELETE(d, q, transportFails)

\* fmt.Sprintf("Verb %s is not a valid operation", q.Verb).
VerbError(verb) == "Verb " \o verb \o " is not a valid operation"

\* rq.QueryErrors after the drain looking at the last entry drained only.
QueryErrors_LastOnly(result) == result # <<>> /\ result[Len(result)].error # ""

\* rq.QueryErrors after the drain: set by every entry whose Error is not "".
QueryErrors(result) == \E n \in 1..Len(result) : result[n].error # ""

\* The gather loop's test: the channel holds at least as many results as the
\* batch has entries.
GatherDone_OneShort(result, query) == Len(result) + 1 >= Len(query)
GatherDone_OneOver(result, query) == Len(result) > Len(query)
GatherDone(result, query) == Len(result) >= Len(query)

\* A goroutine of the batch: not started, about to call the Store, about to send
\* its entry on the channel, or returned.
Task(pc, q) == [pc |-> pc, q |-> q]

\* The handler after it has decoded the body into mq.Query and made the channel:
\* i is the entry the dispatch loop is at, rq the response.
MultiQuery(pc, query) ==
    [pc |-> pc, query |-> query, i |-> 1,
     task |-> [n \in 1..Len(query) |-> Task("none", query[n])],
     result |-> <<>>, closed |-> FALSE,
     status |-> 0, rq |-> [query |-> <<>>, query_errors |-> FALSE]]

NoMultiQuery == MultiQuery("idle", <<>>)

\* A Store call on node A made by a request task: the function, its arguments,
\* where the call is (start, commit, emit, done), the envelope it has read or
\* built, the error it returns, and whether every earlier call had returned
\* when it was made.
Request(op, path, value, lock, inOrder) ==
    [op |-> op, path |-> path, value |-> value, lock |-> lock, pc |-> "start",
     obj |-> ZeroObject, err |-> "nil", inOrder |-> inOrder]

\* The two-node system: the calls on node A, the updates A has emitted that the
\* transport has not delivered to node B yet (in emission order), B's database,
\* and the updates B has emitted while applying.
NoCluster == [reqs |-> <<>>, wire |-> <<>>, peer |-> EmptyDB, echo |-> <<>>]

(***************************************************************************)
(* Inputs                                                                  *)
(***************************************************************************)
\* Paths of requests: "", "a", "a/", "a/b".
Paths == {<<>>, <<"a">>, <<"a", "/">>, <<"a", "/", "b">>}

\* Request bodies: empty, the JSON number 1, the plain text x.
Values == {<<>>, <<"1">>, <<"x">>}

\* uuid.New().String(): the n-th id of the run.
LockId(n) == ToString(n)

\* A Lock that a peer's Lock call returned (its id is none of this node's).
PeerLock(key) == NewLock(key, "peer")

\* The Lock values a caller or a peer can name: a path with an id handed out so
\* far, or with a peer's id.
Locks == {NewLock(k, LockId(n)) : k \in Paths, n \in 1..(nextLockId - 1)}
            \cup {PeerLock(k) : k \in Paths}

\* What the cluster transport can put on kv.updates: the updates a peer emits
\* (with the envelopes a peer's Put and Lock write), an update of an unknown type
\* and a message that does not decode.
Inbound ==
    {Undecodable}
    \cup {Message(KVUpdate("put:key", k, [data |-> v, secret |-> FALSE, locks |-> <<>>,
                                          plaintext |-> ~IsJSON(v)])) :
            k \in Paths, v \in {<<"1">>}}
    \cup {Message(KVUpdate("put:key", k, [data |-> <<"1">>, secret |-> FALSE,
                                          locks |-> <<PeerLock(k)>>, plaintext |-> FALSE])) :
            k \in Paths}
    \cup {Message(KVUpdate(t, k, ZeroObject)) :
            t \in {"delete:key", "delete:bucket", "lock:create"}, k \in Paths}
    \cup {Message(KVUpdate("sync", <<"a">>, ZeroObject))}
    \cup {Message(KVUpdate("lock:delete", l.key, [ZeroObject EXCEPT !.data = MarshalLock(l)])) :
            l \in Locks}
    \cup {Message(KVUpdate("lock:delete", <<>>, ZeroObject))}

\* The verbs of batch entries without "secret": three of the handler's cases (one
\* in lower case) and a verb it does not know; and of the entries with "secret".
Verbs == {"get", "PUT", "DELETE", "PATCH"}
SecretVerbs == {"GET", "POST"}

\* The batches of a multi-query: up to MaxBatch entries on the key "a".
Queries == {QueryObject(v, <<"a">>, <<"1">>, FALSE) : v \in Verbs}
            \cup {QueryObject(v, <<"a">>, <<"1">>, TRUE) : v \in SecretVerbs}
Batches == UNION {[1..n -> Queries] : n \in 0..MaxBatch}

(***************************************************************************)
(* The node: requests and inbound updates, one at a time                   *)
(***************************************************************************)
vars == <<db, nextLockId, crashed, lastOp, mq, cl>>

Init ==
    /\ db = EmptyDB
    /\ nextLockId = 1
    /\ crashed = FALSE
    /\ lastOp = Op("none", <<>>, <<>>, <<>>, 0, <<>>)
    /\ mq = NoMultiQuery
    /\ cl = NoCluster

\* GET /api/v1/kv/{path}
HttpGet(path) ==
    /\ ~crashed
    /\ \E r \in {kvGetHandler(db, path)} :
           lastOp' = Op("GET", path, <<>>, r.calls, r.status, r.body)
    /\ UNCHANGED <<db, nextLockId, crashed, mq, cl>>

\* POST /api/v1/kv/{path}
HttpPost(path, buf, transportFails) ==
    /\ ~crashed
    /\ \E r \in {kvPutHandler(db, path, buf, transportFails)} :
           /\ db' = r.db
           /\ lastOp' = Op("POST", path, buf, r.calls, r.status, <<>>)
    /\ UNCHANGED <<nextLockId, crashed, mq, cl>>

\* DELETE /api/v1/kv/{path}
HttpDelete(path, transportFails1, transportFails2) ==
    /\ ~crashed
    /\ \E r \in {kvDeleteHandler(db, path, transportFails1, transportFails2)} :
           /\ db' = r.db
           /\ lastOp' = Op("DELETE", path, <<>>, r.calls, r.status, <<>>)
    /\ UNCHANGED <<nextLockId, crashed, mq, cl>>

\* A caller in the process (the Store is registered as the RPC service "kv")
\* calls DeleteBucket(path, "kv").
CallDeleteBucket(path, transportFails) ==
    /\ ~crashed
    /\ \E r \in {DeleteBucket(db, path, TRUE, transportFails)} :
           /\ db' = r.db
           /\ lastOp' = Op("DeleteBucket", path, <<>>,
                           <<Call("DeleteBucket", path, TRUE, db, r)>>, 0, <<>>)
    /\ UNCHANGED <<nextLockId, crashed, mq, cl>>

\* ... Lock(path, "kv").
CallLock(path, transportFails) ==
    /\ ~crashed
    /\ nextLockId <= MaxLocks
    /\ \E r \in {Lock(db, path, TRUE, LockId(nextLockId), transportFails)} :
           /\ db' = r.db
           /\ nextLockId' = IF r.db # db THEN nextLockId + 1 ELSE nextLockId
           /\ lastOp' = [Op("Lock", path, <<>>, <<Call("Lock", path, TRUE, db, r)>>, 0, <<>>)
                            EXCEPT !.lock = r.lock]
    /\ UNCHANGED <<crashed, mq, cl>>

\* ... Unlock(lock): the caller passes a Lock value, one that Lock returned or another.
CallUnlock(lock, transportFails) ==
    /\ ~crashed
    /\ \E r \in {Unlock(db, lock, TRUE, transportFails)} :
           /\ db' = r.db
           /\ crashed' = (r.err = "panic")
           /\ lastOp' = [Op("Unlock", lock.key, <<>>, <<Call("Unlock", lock.key, TRUE, db, r)>>,
                            0, <<>>)
                            EXCEPT !.lock = lock]
    /\ UNCHANGED <<nextLockId, mq, cl>>

\* start: one iteration of the Update loop that takes msg from kv.updates and
\* applies it; an error is logged, a panic ends the process.
start(msg, transportFails) ==
    /\ ~crashed
    /\ msg.kvu.update_type = "lock:create" => nextLockId <= MaxLocks
    /\ \E r \in {handleUpdate(db, msg, LockId(nextLockId), transportFails)} :
           /\ db' = r.db
           /\ nextLockId' = IF msg.kvu.update_type = "lock:create" /\ r.db # db
                            THEN nextLockId + 1 ELSE nextLockId
           /\ crashed' = (r.err = "panic")
           /\ lastOp' = [Op("handleUpdate", msg.kvu.key, <<>>, r.calls, 0, <<>>)
                            EXCEPT !.update_type = msg.kvu.update_type, !.err = r.err]
    /\ UNCHANGED <<mq, cl>>

Next ==
    \/ \E path \in Paths : HttpGet(path)
    \/ \E path \in Paths, buf \in Values, fails \in BOOLEAN : HttpPost(path, buf, fails)
    \/ \E path \in Paths, fails1, fails2 \in BOOLEAN : HttpDelete(path, fails1, fails2)
    \/ \E path \in Paths, fails \in BOOLEAN : CallDeleteBucket(path, fails)
    \/ \E path \in Paths, fails \in BOOLEAN : CallLock(path, fails)
    \/ \E lock \in Locks, fails \in BOOLEAN : CallUnlock(lock, fails)
    \/ \E msg \in Inbound, fails \in BOOLEAN : start(msg, fails)

Spec == Init /\ [][Next]_vars

\* multiQueryHandler's dispatch loop at entry i: start the goroutine for the
\* entry, or put the "not a valid operation" entry on the channel.
MqDispatch ==
    /\ ~crashed
    /\ mq.pc = "dispatch"
    /\ mq.i <= Len(mq.query)
    /\ LET q == mq.query[mq.i]
       IN  mq' = IF Spawns(q)
                 THEN [mq EXCEPT !.i = @ + 1, !.task[mq.i].pc = "run"]
                 ELSE [mq EXCEPT !.i = @ + 1,
                                 !.result = Append(@, [q EXCEPT !.error = VerbError(q.verb)])]
    /\ UNCHANGED <<db, nextLockId, crashed, lastOp, cl>>

\* The goroutine of entry n calls the Store.
MqRun(n, transportFails) ==
    /\ ~crashed
    /\ mq.task[n].pc = "run"
    /\ \E r \in {Goroutine(db, mq.task[n].q, transportFails)} :
           /\ db' = r.db
           /\ mq' = [mq EXCEPT !.task[n] = Task("send", r.q)]
    /\ UNCHANGED <<nextLockId, crashed, lastOp, cl>>

\* The goroutine of entry n sends its entry (result <- q) and returns; the send
\* waits while the channel is full and panics on a closed channel.
MqSend(n) ==
    /\ ~crashed
    /\ mq.task[n].pc = "send"
    /\ mq.closed \/ Len(mq.result) < Len(mq.query)
    /\ IF mq.closed
       THEN crashed' = TRUE /\ UNCHANGED mq
       ELSE /\ mq' = [mq EXCEPT !.task[n].pc = "done", !.result = Append(@, mq.task[n].q)]
            /\ UNCHANGED crashed
    /\ UNCHANGED <<db, nextLockId, lastOp, cl>>

\* The gather loop, once the dispatch loop is over: an iteration that finds the
\* channel full closes it (the other iterations sleep and change nothing).
MqGather ==
    /\ ~crashed
    /\ mq.pc = "dispatch"
    /\ mq.i > Len(mq.query)
    /\ GatherDone(mq.result, mq.query)
    /\ mq' = [mq EXCEPT !.pc = "drain", !.closed = TRUE]
    /\ UNCHANGED <<db, nextLockId, crashed, lastOp, cl>>

\* The drain (for r := range result) and the response: 400 when an entry
\* carries an error, else 200.
MqRespond ==
    /\ ~crashed
    /\ mq.pc = "drain"
    /\ mq' = [mq EXCEPT !.pc = "done", !.result = <<>>,
                        !.rq = [query |-> mq.result, query_errors |-> QueryErrors(mq.result)],
                        !.status = IF QueryErrors(mq.result) THEN 400 ELSE 200]
    /\ UNCHANGED <<db, nextLockId, crashed, lastOp, cl>>

\* One POST /api/v1/kv (multi-query) on a fresh node, its goroutines interleaved
\* in every order.
InitMQ ==
    /\ db = EmptyDB
    /\ nextLockId = 1
    /\ crashed = FALSE
    /\ lastOp = Op("none", <<>>, <<>>, <<>>, 0, <<>>)
    /\ \E query \in Batches : mq = MultiQuery("dispatch", query)
    /\ cl = NoCluster

NextMQ ==
    \/ MqDispatch
    \/ \E n \in DOMAIN mq.task, fails \in BOOLEAN : MqRun(n, fails)
    \/ \E n \in DOMAIN mq.task : MqSend(n)
    \/ MqGather
    \/ MqRespond

SpecMQ == InitMQ /\ [][NextMQ]_vars

\* The next step of the handler's goroutine (dispatch loop, the polling gather
\* loop, drain and response) and of the goroutine started for entry n (the call
\* of the Store, then the send on the buffered channel).
HandlerStep == MqDispatch \/ MqGather \/ MqRespond
GoroutineStep(n) == n \in DOMAIN mq.task /\ (MqSend(n) \/ \E fails \in BOOLEAN : MqRun(n, fails))

\* The Go scheduler runs every goroutine that can take a step.
FairMQ ==
    /\ WF_vars(HandlerStep)
    /\ \A n \in 1..MaxBatch : WF_vars(GoroutineStep(n))

\* One multi-query whose entries are not secret (the secret flag changes what
\* a goroutine stores and returns, not whether it sends).
InitMQLive ==
    /\ InitMQ
    /\ \A n \in 1..Len(mq.query) : ~mq.query[n].secret

SpecMQLive == InitMQLive /\ [][NextMQ]_vars /\ FairMQ

\* A request task on node A calls Put, DeleteKey, Lock or Unlock on the key "a";
\* Unlock is called with the Lock a returned Lock call gave.
ClIssue(op, value, lock) ==
    /\ ~crashed
    /\ Len(cl.reqs) < MaxRequests
    /\ cl' = [cl EXCEPT !.reqs = Append(@, Request(op, <<"a">>, value, lock,
                            \A n \in 1..Len(cl.reqs) : cl.reqs[n].pc = "done"))]
    /\ UNCHANGED <<db, nextLockId, crashed, lastOp, mq>>

\* Lock and Unlock, first part: GetObject in its read transaction, then the new
\* lock list (Lock appends, Unlock splices; index -1 panics).
ClRead(n) ==
    /\ ~crashed
    /\ cl.reqs[n].pc = "start"
    /\ cl.reqs[n].op \in {"Lock", "Unlock"}
    /\ \E o \in {GetObject(db, cl.reqs[n].path)} :
       \E index \in {LockIndex(o.obj.locks, cl.reqs[n].lock)} :
           /\ crashed' = (o.err = "nil" /\ cl.reqs[n].op = "Unlock" /\ index = -1)
           /\ cl' = IF o.err # "nil"
                    THEN [cl EXCEPT !.reqs[n].pc = "done", !.reqs[n].err = o.err]
                    ELSE IF cl.reqs[n].op = "Lock"
                    THEN [cl EXCEPT !.reqs[n].pc = "commit",
                                    !.reqs[n].obj = [o.obj EXCEPT !.locks = Append(@, cl.reqs[n].lock)]]
                    ELSE IF index = -1
                    THEN [cl EXCEPT !.reqs[n].pc = "done", !.reqs[n].err = "panic"]
                    ELSE [cl EXCEPT !.reqs[n].pc = "commit",
                                    !.reqs[n].obj =
                                        [o.obj EXCEPT !.locks =
                                            SubSeq(o.obj.locks, 1, index)
                                            \o SubSeq(o.obj.locks, index + 2, Len(o.obj.locks))]]
    /\ UNCHANGED <<db, nextLockId, lastOp, mq>>

\* The write transaction of the call: PutObject's for Put (with the envelope Put
\* builds), Lock and Unlock (with the envelope read and changed), DeleteKey's own.
\* PutObject returns the transaction's error; DeleteKey goes on to emit.
ClCommit(n) ==
    /\ ~crashed
    /\ \/ cl.reqs[n].pc = "start" /\ cl.reqs[n].op \in {"Put", "DeleteKey"}
       \/ cl.reqs[n].pc = "commit"
    /\ \E obj \in {IF cl.reqs[n].op = "Put" THEN NewObject(cl.reqs[n].value, FALSE)
                    ELSE cl.reqs[n].obj} :
       \E r \in {IF cl.reqs[n].op = "DeleteKey"
                  THEN DeleteKey(db, cl.reqs[n].path, FALSE, FALSE)
                  ELSE PutObject(db, cl.reqs[n].path, obj, FALSE, FALSE)} :
           /\ db' = r.db
           /\ cl' = IF r.err # "nil" /\ cl.reqs[n].op # "DeleteKey"
                    THEN [cl EXCEPT !.reqs[n].pc = "done", !.reqs[n].err = r.err]
                    ELSE [cl EXCEPT !.reqs[n].pc = "emit", !.reqs[n].err = r.err,
                                    !.reqs[n].obj = obj]
    /\ UNCHANGED <<nextLockId, crashed, lastOp, mq>>

\* The call's emitEvent: put:key with the envelope written, or delete:key; the
\* call returns emitEvent's error.  The transport carries the update to node B
\* unless Emit failed.
ClEmit(n, transportFails) ==
    /\ ~crashed
    /\ cl.reqs[n].pc = "emit"
    /\ \E ev \in {IF cl.reqs[n].op = "DeleteKey"
                   THEN emitEvent("delete:key", cl.reqs[n].path, ZeroObject, transportFails)
                   ELSE emitEvent("put:key", cl.reqs[n].path, cl.reqs[n].obj, transportFails)} :
           cl' = [cl EXCEPT !.reqs[n].pc = "done", !.reqs[n].err = ev.err,
                            !.wire = IF transportFails THEN @ ELSE @ \o ev.sent]
    /\ UNCHANGED <<db, nextLockId, crashed, lastOp, mq>>

\* Node B's Update loop takes the oldest undelivered update and applies it.
ClDeliver ==
    /\ cl.wire # <<>>
    /\ \E r \in {handleUpdate(cl.peer, Message(Head(cl.wire)), "peer", FALSE)} :
           cl' = [cl EXCEPT !.wire = Tail(@), !.peer = r.db, !.echo = @ \o r.sent]
    /\ UNCHANGED <<db, nextLockId, crashed, lastOp, mq>>

\* The Locks that Lock calls on node A have returned.
Returned == {cl.reqs[n].lock : n \in {m \in 1..Len(cl.reqs) :
                                        cl.reqs[m].op = "Lock" /\ cl.reqs[m].pc = "done"}}

NextCluster ==
    \/ \E value \in {<<"1">>, <<"x">>} : ClIssue("Put", value, NoLock)
    \/ ClIssue("DeleteKey", <<>>, NoLock)
    \/ ClIssue("Lock", <<>>, NewLock(<<"a">>, LockId(Len(cl.reqs) + 1)))
    \/ \E lock \in Returned : ClIssue("Unlock", <<>>, lock)
    \/ \E n \in 1..Len(cl.reqs) : ClRead(n)
    \/ \E n \in 1..Len(cl.reqs) : ClCommit(n)
    \/ \E n \in 1..Len(cl.reqs), fails \in BOOLEAN : ClEmit(n, fails)
    \/ ClDeliver

SpecCluster == Init /\ [][NextCluster]_vars

\* The paths parsePath is given: every text of up to MaxPath characters over
\* two letters and '/'.
PathTexts == UNION {[1..n -> {"a", "b", Slash}] : n \in 0..MaxPath}

\* What lastOp records of a call of parsePath: the path and the two results.
Parsed(op, path, r) ==
    [op |-> op, path |-> path, buckets |-> r.buckets, key |-> r.key]

\* A caller holds a path and has not called parsePath yet.
InitPath ==
    /\ db = EmptyDB
    /\ nextLockId = 1
    /\ crashed = FALSE
    /\ \E path \in PathTexts : lastOp = Parsed("none", path, [buckets |-> <<>>, key |-> <<>>])
    /\ mq = NoMultiQuery
    /\ cl = NoCluster

\* buckets, k := parsePath(key)
CallParsePath ==
    /\ lastOp.op = "none"
    /\ \E r \in {parsePath(lastOp.path)} : lastOp' = Parsed("parsePath", lastOp.path, r)
    /\ UNCHANGED <<db, nextLockId, crashed, mq, cl>>

NextPath == CallParsePath

SpecPath == InitPath /\ [][NextPath]_vars

(***************************************************************************)
(* Properties                                                              *)
(***************************************************************************)
Calls(op) == {op.calls[i] : i \in 1..Len(op.calls)}

\* The Store functions that mutate, called by a local caller with the default emit.
LocalMutations == {"Put", "DeleteKey", "DeleteBucket", "Lock", "Unlock"}

\* The bucket chain of path exists, and the bucket holds nothing under the key.
ChainExists(d, path) == getBuckets(d, parsePath(path).buckets, FALSE).err = "nil"
EntryPath(d, path) == Append(getBuckets(d, parsePath(path).buckets, FALSE).bkt, parsePath(path).key)
NothingAt(d, path) == ChainExists(d, path) /\ EntryPath(d, path) \notin DOMAIN d
LeafAt(d, path) ==
    ChainExists(d, path) /\ EntryPath(d, path) \in DOMAIN d /\ d[EntryPath(d, path)].kind = "leaf"

\* The cluster transport accepted every update the operation handed to it.
TransportAccepted(op) == \A c \in Calls(op) : c.err # "emit failed"

\* C1: every local mutation of the Store called with the default emit that
\* returns without error has handed exactly one update to the cluster transport.
C1_OneUpdatePerLocalMutation ==
    \A c \in Calls(lastOp) :
        (c.fn \in LocalMutations /\ c.emit /\ c.err = "nil") => Len(c.sent) = 1

\* C1 witness: an Unlock of a lock that Lock placed has returned without error,
\* with one update handed over.
C1_Witness ==
    /\ lastOp.op = "Unlock"
    /\ lastOp.lock.lock_id = LockId(1)
    /\ lastOp.calls[1].err = "nil"
    /\ Len(lastOp.calls[1].sent) = 1

\* C2: applying an inbound update, of whatever update_type, hands no update to the
\* cluster transport.
C2_ApplyEmitsNothing ==
    lastOp.op = "handleUpdate" => \A c \in Calls(lastOp) : c.sent = <<>>

\* C3: after Put(path, value, secret=false) on a path with a non-empty key has
\* succeeded, and before any other operation, Get(path) returns exactly value.
C3_PutThenGet ==
    (/\ lastOp.op = "POST"
     /\ parsePath(lastOp.path).key # <<>>
     /\ lastOp.calls[1].err = "nil")
        => Get(db, lastOp.path) = [data |-> lastOp.value, err |-> "nil"]

\* C3 witness: a Put of the plain text x at a/b has succeeded.
C3_Witness ==
    /\ lastOp.op = "POST"
    /\ lastOp.path = <<"a", "/", "b">>
    /\ lastOp.value = <<"x">>
    /\ lastOp.calls[1].err = "nil"

\* C4: the HTTP GET of a key answers 404 when the bucket chain exists and holds
\* nothing under the key, and 500 when the bucket chain is missing.
C4_AbsentLeaf404_MissingChain500 ==
    (lastOp.op = "GET" /\ parsePath(lastOp.path).key # <<>>)
        => /\ NothingAt(db, lastOp.path) => lastOp.status = 404
           /\ ~ChainExists(db, lastOp.path) => lastOp.status = 500

\* The envelope stored at path (the zero object when there is none).
Envelope(d, path) == GetObject(d, path).obj

\* The database d without the entry of path.
Without(d, path) == RemoveEntries(d, {EntryPath(d, path)})

\* seq without its element at index i.
RemoveAt(seq, i) == SubSeq(seq, 1, i - 1) \o SubSeq(seq, i + 1, Len(seq))

\* C5: a step of Lock(p) on an existing key appends the new lock at the end of the
\* envelope's lock list and changes nothing else in the store; a step of
\* Unlock(lock) whose lock_id is in the list removes that one lock and keeps the
\* others in their order, and changes nothing else.
C5_LockAppendsUnlockRemoves ==
    [][/\ (lastOp'.op = "Lock" /\ LeafAt(db, lastOp'.path))
            => /\ LeafAt(db', lastOp'.path)
               /\ Envelope(db', lastOp'.path) =
                    [Envelope(db, lastOp'.path) EXCEPT !.locks = Append(@, lastOp'.lock)]
               /\ Without(db', lastOp'.path) = Without(db, lastOp'.path)
       /\ (/\ lastOp'.op = "Unlock"
           /\ LeafAt(db, lastOp'.path)
           /\ \E i \in 1..Len(Envelope(db, lastOp'.path).locks) :
                Envelope(db, lastOp'.path).locks[i].lock_id = lastOp'.lock.lock_id)
            => /\ LeafAt(db', lastOp'.path)
               /\ \E i \in 1..Len(Envelope(db, lastOp'.path).locks) :
                    /\ Envelope(db, lastOp'.path).locks[i].lock_id = lastOp'.lock.lock_id
                    /\ Envelope(db', lastOp'.path) =
                         [Envelope(db, lastOp'.path) EXCEPT !.locks = RemoveAt(@, i)]
               /\ \A l \in {Envelope(db', lastOp'.path).locks[i] :
                              i \in 1..Len(Envelope(db', lastOp'.path).locks)} :
                    l.lock_id # lastOp'.lock.lock_id
               /\ Without(db', lastOp'.path) = Without(db, lastOp'.path)
      ]_vars

\* C5 witness: an Unlock has taken a lock out of a list that still holds two
\* others, a peer's placed before it and this node's second placed after it.
C5_Witness ==
    /\ lastOp.op = "Unlock"
    /\ lastOp.lock.lock_id = LockId(1)
    /\ lastOp.calls[1].changed
    /\ Envelope(db, lastOp.path).locks
         = <<PeerLock(lastOp.path), NewLock(lastOp.path, LockId(2))>>

C7_BucketDeleteCascades ==
    [][(/\ lastOp'.op = "DELETE"
        /\ TransportAccepted(lastOp') /\ TransportAccepted(lastOp)
        /\ HasSuffixSlash(lastOp'.path)
        /\ ChainExists(db, lastOp'.path))
         => /\ lastOp'.status = 200
            /\ \A p \in Paths :
                 (LeafAt(db, p) /\ IsPrefix(lastOp'.path, p))
                    => kvGetHandler(db', p).status = 404
      ]_vars

\* No bucket is where DeleteBucket(path) looks: the chain is missing, or the
\* chain's bucket holds nothing under the (non-empty) terminal segment.
NoSuchBucket(d, path) ==
    \/ ~ChainExists(d, path)
    \/ parsePath(path).key # <<>> /\ NothingAt(d, path)

\* C8: DeleteBucket on a bucket that does not exist returns a not-found error, with
\* the default emit and with emit=false, and the HTTP bucket DELETE answers 404
\* (here: on a node whose transport accepts every update).
C8_MissingBucketNotFound ==
    [][(lastOp'.calls # <<>> /\ lastOp'.calls[1].fn = "DeleteBucket"
            /\ TransportAccepted(lastOp') /\ TransportAccepted(lastOp)
            /\ NoSuchBucket(db, lastOp'.calls[1].key))
         => /\ lastOp'.calls[1].err \in {"bucket not found", "Bucket does not exist"}
            /\ lastOp'.op = "DELETE" => lastOp'.status = 404
      ]_vars

\* C9: in every state the store reaches, a DeleteKey call (with the default emit
\* or with emit=false) on a key under which an existing bucket holds nothing
\* leaves the store as it is and returns no error of its own (the one error it can
\* return is the transport's refusal of the update); and DeleteKey applied a second
\* time leaves the state and returns the result of the first.
C9_DeleteKeyIdempotent ==
    \A path \in Paths, emit \in BOOLEAN, fails \in BOOLEAN :
        LET once  == DeleteKey(db, path, emit, fails)
            twice == DeleteKey(once.db, path, emit, fails)
        IN  /\ NothingAt(db, path)
                => /\ once.db = db
                   /\ once.err = IF emit /\ fails THEN "emit failed" ELSE "nil"
            /\ twice.db = once.db
            /\ twice.err = once.err

\* C9 witness: an inbound delete:key has been applied to a/b while bucket a exists
\* and holds nothing under b: no error, nothing changed.
C9_Witness ==
    /\ lastOp.op = "handleUpdate"
    /\ lastOp.update_type = "delete:key"
    /\ lastOp.path = <<"a", "/", "b">>
    /\ NothingAt(db, lastOp.path)
    /\ lastOp.calls[1].err = "nil"
    /\ ~lastOp.calls[1].changed

\* The entries of a sequence of QueryObjects as (verb, key) pairs with their
\* number of occurrences.
Occurrences(qs, q) ==
    Cardinality({n \in 1..Len(qs) :
                   qs[n].verb = q.verb /\ qs[n].key = q.key /\ qs[n].secret = q.secret})

\* C10: when a multi-query has responded, the response holds exactly as many
\* entries as the batch, one for every entry of the batch, and no goroutine is
\* left that has yet to send; this in every interleaving of the goroutines.
C10_OneResultPerEntry ==
    mq.pc = "done" =>
        /\ Len(mq.rq.query) = Len(mq.query)
        /\ \A q \in Queries : Occurrences(mq.rq.query, q) = Occurrences(mq.query, q)
        /\ \A n \in DOMAIN mq.task : mq.task[n].pc \in {"none", "done"}

\* C10 witness: a batch of MaxBatch entries with a GET, a PUT and a DELETE has
\* responded.
C10_Witness ==
    /\ mq.pc = "done"
    /\ Len(mq.query) = MaxBatch
    /\ {"GET", "PUT", "DELETE"} \subseteq {ToUpper(mq.query[n].verb) : n \in 1..Len(mq.query)}
    /\ Len(mq.rq.query) = MaxBatch

\* The entries a multi-query has produced so far: on the channel or in the response.
Produced == {mq.result[n] : n \in 1..Len(mq.result)} \cup {mq.rq.query[n] : n \in 1..Len(mq.rq.query)}

\* C11: an entry with an unknown verb never gets a goroutine (so it reaches no
\* Store operation) and is answered with the error "Verb <v> is not a valid
\* operation"; when the multi-query has responded, the status is 400 with
\* query_errors set if some returned entry has a non-empty error, and 200 with
\* query_errors false if none has.
C11_Status400IffEntryError ==
    /\ \A n \in DOMAIN mq.task :
          ~Spawns(mq.query[n]) =>
              /\ mq.task[n].pc = "none"
              /\ n < mq.i => \E r \in Produced :
                                /\ r.verb = mq.query[n].verb
                                /\ r.error = "Verb " \o r.verb \o " is not a valid operation"
    /\ mq.pc = "done" =>
          IF \E n \in 1..Len(mq.rq.query) : mq.rq.query[n].error # ""
          THEN mq.status = 400 /\ mq.rq.query_errors
          ELSE mq.status = 200 /\ ~mq.rq.query_errors

\* C11 witness: a batch whose first entry has an unknown verb and whose last entry
\* succeeded has responded 400.
C11_Witness ==
    /\ mq.pc = "done"
    /\ Len(mq.query) = 2
    /\ mq.query[1].verb = "PATCH"
    /\ mq.rq.query[2].error = ""
    /\ mq.status = 400

\* C12: a step in which the goroutine of a GET entry with secret=true reads the
\* key without error puts in the entry the decrypted plaintext when the stored
\* bytes decrypt under the shared key, and the stored bytes when they do not.
C12_SecretGetDecrypts ==
    [][\A n \in DOMAIN mq.task :
          (/\ mq.task[n].pc = "run" /\ mq'.task[n].pc = "send"
           /\ ToUpper(mq.task[n].q.verb) = "GET" /\ mq.task[n].q.secret
           /\ mq'.task[n].q.error = "")
          => mq'.task[n].q.value =
                IF decryptJSON(Get(db, mq.task[n].q.key).data).err = "nil"
                THEN decryptJSON(Get(db, mq.task[n].q.key).data).data
                ELSE Get(db, mq.task[n].q.key).data
      ]_vars

\* The batch [PUT k1 = v1, GET k1, DELETE k1].
PutGetDelete ==
    <<QueryObject("PUT", <<"a">>, <<"1">>, FALSE), QueryObject("get", <<"a">>, <<"1">>, FALSE),
      QueryObject("DELETE", <<"a">>, <<"1">>, FALSE)>>

\* C13: when the batch [PUT k1 = v1, GET k1, DELETE k1], run on a store without
\* k1, has responded, its GET entry carries the value v1 or an error, and the
\* store holds no value at k1, whatever the interleaving of the three goroutines.
C13_PutGetDeleteConverges ==
    (mq.query = PutGetDelete /\ mq.pc = "done") =>
        /\ \A n \in 1..Len(mq.rq.query) :
              mq.rq.query[n].verb = "get" =>
                  \/ mq.rq.query[n].error # ""
                  \/ mq.rq.query[n].value = <<"1">>
        /\ ~LeafAt(db, <<"a">>)

\* The calls made on node A so far, by function.
Ops == [n \in 1..Len(cl.reqs) |-> cl.reqs[n].op]

\* Every call on node A was made after the calls before it had returned, every
\* call has returned without error, and node B has applied every update emitted.
InOrderAndApplied ==
    /\ \A n \in 1..Len(cl.reqs) :
          cl.reqs[n].inOrder /\ cl.reqs[n].pc = "done" /\ cl.reqs[n].err = "nil"
    /\ cl.wire = <<>>

\* C14: with A's updates delivered to B in order and no writes on B: after
\* Put(p), Lock(p) on A and B's apply, B's envelope for p holds exactly one lock
\* (the one Lock returned); after Unlock of that lock on A and B's apply, B's
\* envelope for p holds no lock.
C14_PeerLockListFollows ==
    /\ (InOrderAndApplied /\ Ops = <<"Put", "Lock">>)
          => /\ LeafAt(cl.peer, <<"a">>)
             /\ Envelope(cl.peer, <<"a">>).locks = <<cl.reqs[2].lock>>
    /\ (InOrderAndApplied /\ Ops = <<"Put", "Lock", "Unlock">>)
          => /\ LeafAt(cl.peer, <<"a">>)
             /\ Envelope(cl.peer, <<"a">>).locks = <<>>

\* C14 witness: Put, Lock and Unlock have run on A one after the other and B has
\* applied their updates; B holds the key with an empty lock list.
C14_Witness ==
    /\ InOrderAndApplied
    /\ Ops = <<"Put", "Lock", "Unlock">>
    /\ LeafAt(cl.peer, <<"a">>)
    /\ Envelope(cl.peer, <<"a">>).locks = <<>>
    /\ Envelope(db, <<"a">>).locks = <<>>

\* The update type the Store's contract gives each mutation.
UpdateTypeOf(fn) ==
    CASE fn = "Put" -> "put:key" [] fn = "DeleteKey" -> "delete:key"
      [] fn = "DeleteBucket" -> "delete:bucket" [] fn = "Lock" -> "lock:create"
      [] fn = "Unlock" -> "lock:delete"

\* C15: every update a local mutation emits has the type of the mutation
\* (put:key for Put, delete:key for DeleteKey, delete:bucket for DeleteBucket,
\* lock:create for Lock, lock:delete for Unlock), and the update of an Unlock
\* carries the serialised Lock in its envelope's data.
C15_UpdateTypePerMutation ==
    \A c \in Calls(lastOp) :
        (c.fn \in LocalMutations /\ c.emit) =>
            \A n \in 1..Len(c.sent) :
                /\ c.sent[n].update_type = UpdateTypeOf(c.fn)
                /\ c.fn = "Unlock" => c.sent[n].value.data = MarshalLock(lastOp.lock)

\* C16: the process is alive after every inbound message the Update loop has
\* applied, whatever the message (undecodable, of an unknown type, a delete or
\* lock on a missing key or bucket, a lock:delete naming a lock_id that is not
\* in the envelope), so that the loop goes on to the next message.
C16_UpdateLoopSurvives ==
    lastOp.op = "handleUpdate" => ~crashed

\* C17: a local mutation whose write changed the store returns no error, and
\* the HTTP request that made it is not answered 500, also when the cluster
\* transport refused the update.
C17_ReplicationFailureNotReturned ==
    \A c \in Calls(lastOp) :
        (c.fn \in LocalMutations /\ c.emit /\ c.changed) =>
            c.err = "nil" /\ lastOp.status # 500

\* Every call made on node A has returned without error.
AllReturned == \A n \in 1..Len(cl.reqs) : cl.reqs[n].pc = "done" /\ cl.reqs[n].err = "nil"

\* C18: when Put and DeleteKey calls on one path of node A, concurrent or not,
\* have all returned without error and node B has applied their updates in the
\* order of emission, B holds for the path what A holds.
C18_PeerEndsWithSameValue ==
    (/\ AllReturned
     /\ \A n \in 1..Len(cl.reqs) : cl.reqs[n].op \in {"Put", "DeleteKey"}
     /\ cl.wire = <<>>)
    => /\ LeafAt(cl.peer, <<"a">>) <=> LeafAt(db, <<"a">>)
       /\ Envelope(cl.peer, <<"a">>) = Envelope(db, <<"a">>)

\* C19: on a key that a Put has created, two Lock calls in any interleaving
\* leave both locks in the key's lock list, and a Lock in any interleaving with
\* a second Put leaves the second Put's data in the envelope.
C19_LockIsAtomic ==
    (AllReturned /\ Len(cl.reqs) = 3 /\ cl.reqs[2].inOrder) =>
        /\ Ops = <<"Put", "Lock", "Lock">>
              => {cl.reqs[2].lock, cl.reqs[3].lock}
                    \subseteq {Envelope(db, <<"a">>).locks[i] :
                                  i \in 1..Len(Envelope(db, <<"a">>).locks)}
        /\ Ops = <<"Put", "Lock", "Put">>
              => Envelope(db, <<"a">>).data = cl.reqs[3].value

\* C20: a POST to a path whose terminal key is empty (the empty path, a path
\* ending in '/') is turned down by the handler: it makes no Store call, answers
\* with an error status, and leaves the store as it was.
C20_PostEmptyKeyRejected ==
    [][(lastOp'.op = "POST" /\ parsePath(lastOp'.path).key = <<>>)
          => /\ lastOp'.calls = <<>>
             /\ lastOp'.status # 200
             /\ db' = db
      ]_vars

\* C21: Unlock called with a Lock whose lock_id is in no lock of the stored
\* envelope returns an error, does not end the process, and leaves the store
\* (the envelope's data and lock list) as it was.
C21_UnlockUnknownIdIsError ==
    [][(/\ lastOp'.op = "Unlock"
        /\ LeafAt(db, lastOp'.lock.key)
        /\ LockIndex(Envelope(db, lastOp'.lock.key).locks, lastOp'.lock) = -1)
          => /\ ~crashed'
             /\ \A c \in Calls(lastOp') : c.err \notin {"nil", "panic"}
             /\ db' = db
      ]_vars

\* The write transaction of the mutation that update u reports, run on database d:
\* PutObject's for put:key, DeleteKey's for delete:key, DeleteBucket's for
\* delete:bucket (the functions return the transaction's error when emit is off).
WriteTx(d, u) ==
    IF u.update_type = "put:key" THEN PutObject(d, u.key, u.value, FALSE, FALSE)
    ELSE IF u.update_type = "delete:key" THEN DeleteKey(d, u.key, FALSE, FALSE)
    ELSE DeleteBucket(d, u.key, FALSE, FALSE)

\* C22: whenever a mutation has handed an update to the cluster transport, the
\* mutation's write transaction has committed before, and the store holds the
\* write: no update is emitted for a write that is not persisted locally.
C22_EmitOnlyAfterCommit ==
    [][\A c \in Calls(lastOp') :
          (Len(lastOp'.calls) = 1 /\ c.fn \in LocalMutations) =>
              \A n \in 1..Len(c.sent) :
                  /\ WriteTx(db, c.sent[n]).err = "nil"
                  /\ db' = WriteTx(db, c.sent[n]).db
      ]_vars

\* The text s holds no '/'.
NoSlash(s) == \A i \in 1..Len(s) : s[i] # Slash

\* C23: parsePath splits the path at its last '/': the key is the text after
\* it and holds no '/', the buckets are the '/'-separated segments of the text
\* before it (one for every '/' of the path), and a path without '/' has no
\* buckets and is the key; "" gives ([], ""), "a" gives ([], "a"), "a/" gives
\* (["a"], ""), "a/b" gives (["a"], "b"), "a/b/" gives (["a","b"], ""); and
\* buckets and key joined with '/' are the path.
C23_ParsePathSplitsAtLastSlash ==
    lastOp.op = "parsePath" =>
        /\ NoSlash(lastOp.key)
        /\ \A n \in 1..Len(lastOp.buckets) : NoSlash(lastOp.buckets[n])
        /\ Len(lastOp.buckets) = Cardinality({i \in 1..Len(lastOp.path) : lastOp.path[i] = Slash})
        /\ NoSlash(lastOp.path) => lastOp.buckets = <<>> /\ lastOp.key = lastOp.path
        /\ ~NoSlash(lastOp.path) =>
              lastOp.path = Join(lastOp.buckets, Slash) \o <<Slash>> \o lastOp.key
        /\ Join(lastOp.buckets \o <<lastOp.key>>, Slash) = lastOp.path
        /\ lastOp.path = <<>> => lastOp.buckets = <<>> /\ lastOp.key = <<>>
        /\ lastOp.path = <<"a">> => lastOp.buckets = <<>> /\ lastOp.key = <<"a">>
        /\ lastOp.path = <<"a", "/">> => lastOp.buckets = << <<"a">> >> /\ lastOp.key = <<>>
        /\ lastOp.path = <<"a", "/", "b">> => lastOp.buckets = << <<"a">> >> /\ lastOp.key = <<"b">>
        /\ lastOp.path = <<"a", "/", "b", "/">>
              => lastOp.buckets = << <<"a">>, <<"b">> >> /\ lastOp.key = <<>>

\* parsePath has returned for the path "a/b/": two buckets and the empty key.
C23_Witness ==
    /\ lastOp.op = "parsePath"
    /\ lastOp.path = <<"a", "/", "b", "/">>
    /\ lastOp.buckets = << <<"a">>, <<"b">> >>
    /\ lastOp.key = <<>>

\* The error of the write transaction of call c of operation op on database d
\* (what Put, DeleteKey and DeleteBucket return when emit is off).
TxError(d, op, c) ==
    IF c.fn = "Put" THEN Put(d, c.key, op.value, FALSE, FALSE, FALSE).err
    ELSE IF c.fn = "DeleteKey" THEN DeleteKey(d, c.key, FALSE, FALSE).err
    ELSE DeleteBucket(d, c.key, FALSE, FALSE).err

\* C24: a local Put (PutObject), DeleteKey or DeleteBucket whose write
\* transaction fails (a missing bucket chain, an empty key, a name of the other
\* kind) hands nothing to the cluster transport and returns the transaction's
\* error to its caller.
C24_FailedTxEmitsNothing ==
    [][\A c \in Calls(lastOp') :
          (/\ Len(lastOp'.calls) = 1
           /\ c.emit
           /\ c.fn \in {"Put", "DeleteKey", "DeleteBucket"}
           /\ TxError(db, lastOp', c) # "nil")
          => /\ c.sent = <<>>
             /\ c.err = TxError(db, lastOp', c)
      ]_vars

\* C25: the multi-query handler always gets through its gather loop and
\* responds, when every goroutine it started runs: a goroutine about to send
\* finds room in the channel (its capacity is the number of entries), the
\* channel is closed only when every started goroutine has sent its entry, no
\* send hits the closed channel (which would panic), and the response follows.
C25_GatherTerminates ==
    /\ [](\A n \in DOMAIN mq.task :
            (mq.task[n].pc = "send" /\ ~mq.closed) => Len(mq.result) < Len(mq.query))
    /\ [](mq.closed => \A n \in DOMAIN mq.task : mq.task[n].pc \in {"none", "done"})
    /\ [](~crashed)
    /\ <>(mq.pc = "done" /\ mq.status \in {200, 400})

\* A batch of MaxBatch entries, each with a goroutine of its own, has been
\* gathered and answered: the channel is closed and every goroutine has returned.
C25_Witness ==
    /\ mq.pc = "done"
    /\ mq.closed
    /\ Len(mq.query) = MaxBatch
    /\ \A n \in DOMAIN mq.task : Spawns(mq.query[n]) /\ mq.task[n].pc = "done"
    /\ Len(mq.rq.query) = MaxBatch

====
